---- MODULE Spec2Model ----
(***************************************************************************)
(* Model of src/app.py: the sketch cleaner (process_clean_sketch), the     *)
(* multiply compositor (process_multiply) and the submit/poll loop of      *)
(* call_liblib_api together with the caller's error test.                  *)
(*                                                                         *)
(* Images are records [mode, w, h, px]; px maps <<x, y>> (0-based) to a    *)
(* tuple of 8-bit bands: <<v>> for mode "L", <<r, g, b>> for mode "RGB".   *)
(* The library calls the source makes (PIL resize / convert /              *)
(* ImageChops.multiply, cv2.imdecode / adaptiveThreshold) are modelled by  *)
(* the arithmetic those calls perform.                                     *)
(***************************************************************************)
EXTENDS Integers, Sequences, FiniteSets, TLC

VARIABLES
    render_img,     \* process_multiply: first argument
    sketch_img,     \* process_multiply: second argument
    final_img,      \* process_multiply: outcome record, NotCalled before the call
    uploaded_file,  \* process_clean_sketch: the uploaded file
    cleaned_img,    \* process_clean_sketch: outcome record, NotCalled before the call
    is_webui,       \* call_liblib_api: "webui" in submit_url.lower()
    pc,             \* call_liblib_api / caller: position in the pipeline
    i,              \* call_liblib_api: number of status polls made so far
    generate_uuid,  \* call_liblib_api: id taken from the submit response
    last,           \* call_liblib_api: the response handled by the latest step
    ret             \* call_liblib_api: the returned pair <<img_url, error>>

vars == <<render_img, sketch_img, final_img, uploaded_file, cleaned_img,
          is_webui, pc, i, generate_uuid, last, ret>>

multiply_vars == <<render_img, sketch_img, final_img>>
clean_vars == <<uploaded_file, cleaned_img>>
api_vars == <<is_webui, pc, i, generate_uuid, last, ret>>

\* Python's None.
None == "None"

----------------------------------------------------------------------------
(* Bounds of the model.                                                    *)

\* Largest image width and height drawn for process_multiply.
MaxDim == 2
\* Largest sketch width drawn for process_clean_sketch.
MaxSketchW == 3
\* Largest sketch height drawn for process_clean_sketch.
MaxSketchH == 2

----------------------------------------------------------------------------
(* Images.                                                                 *)

Positions(w, h) == (0 .. (w - 1)) \X (0 .. (h - 1))

Bands(mode) == IF mode = "L" THEN 1 ELSE 3

\* An image whose pixels alternate between c0 and c1 in a checkerboard.
Checker(mode, w, h, c0, c1) ==
    [mode |-> mode, w |-> w, h |-> h,
     px |-> [p \in Positions(w, h) |->
                IF (p[1] + p[2]) % 2 = 0 THEN c0 ELSE c1]]

\* PIL Image.size
Size(img) == <<img.w, img.h>>

\* 8-bit saturation (Pillow clip8).
clip8(v) == IF v < 0 THEN 0 ELSE IF v > 255 THEN 255 ELSE v

RECURSIVE SumTo(_, _)
\* Sum of f[0] + ... + f[n - 1].
SumTo(f, n) == IF n <= 0 THEN 0 ELSE f[n - 1] + SumTo(f, n - 1)

Abs(n) == IF n < 0 THEN -n ELSE n

----------------------------------------------------------------------------
(* PIL operations used by process_multiply.                                *)

\* Numerator, over the denominator 2 * D^3, of Pillow's bicubic filter
\* (a = -0.5) at the point N / D:
\*   |t| < 1      : 1.5|t|^3 - 2.5 t^2 + 1
\*   1 <= |t| < 2 : -0.5 (|t|^3 - 5 t^2 + 8|t| - 4)
\*   otherwise    : 0
bicubic_filter(N, D) ==
    LET a == Abs(N)
    IN  IF a < D THEN 3 * a * a * a - 5 * a * a * D + 2 * D * D * D
        ELSE IF a < 2 * D
             THEN 5 * a * a * D - a * a * a - 8 * a * D * D + 4 * D * D * D
             ELSE 0

\* Pillow precompute_coeffs + normalize_coeffs_8bpc for one output index xx
\* when an axis of length n is resampled to length m: the weight of input
\* index x is the filter at ((x + 0.5) - (xx + 0.5) * n / m) / max(n / m, 1),
\* the weights are normalised to sum 1 and rounded (half away from zero) to
\* fixed point with 22 fractional bits.
precompute_coeffs(n, m, xx) ==
    LET D == 2 * (IF n > m THEN n ELSE m)
        W == [x \in 0 .. (n - 1) |->
                bicubic_filter((2 * x + 1) * m - (2 * xx + 1) * n, D)]
        S == SumTo(W, n)
    IN  [x \in 0 .. (n - 1) |->
            IF W[x] < 0
            THEN -((((-W[x]) * 4194304) + (S \div 2)) \div S)
            ELSE ((W[x] * 4194304) + (S \div 2)) \div S]

\* One 8-bit output sample: clip8((2^21 + sum of sample * coefficient) >> 22).
resample_sample(samples, kk, n) ==
    clip8((2097152 + SumTo([x \in 0 .. (n - 1) |-> samples[x] * kk[x]], n))
          \div 4194304)

\* Pillow ImagingResampleHorizontal_8bpc: every row resampled to width m.
ImagingResampleHorizontal(img, m) ==
    [mode |-> img.mode, w |-> m, h |-> img.h,
     px |-> [p \in Positions(m, img.h) |->
                LET kk == precompute_coeffs(img.w, m, p[1])
                IN  [b \in 1 .. Bands(img.mode) |->
                        resample_sample(
                            [x \in 0 .. (img.w - 1) |-> img.px[<<x, p[2]>>][b]],
                            kk, img.w)]]]

\* Pillow ImagingResampleVertical_8bpc: every column resampled to height m.
ImagingResampleVertical(img, m) ==
    [mode |-> img.mode, w |-> img.w, h |-> m,
     px |-> [p \in Positions(img.w, m) |->
                LET kk == precompute_coeffs(img.h, m, p[2])
                IN  [b \in 1 .. Bands(img.mode) |->
                        resample_sample(
                            [y \in 0 .. (img.h - 1) |-> img.px[<<p[1], y>>][b]],
                            kk, img.h)]]]

\* PIL Image.resize(size): a target with a side below 1 raises ValueError
\* ("height and width must be > 0").
resize_raises(size) == size[1] < 1 \/ size[2] < 1

\* PIL Image.resize(size) with the default (bicubic) filter, for a target
\* that does not raise: the horizontal pass runs when the width changes, then
\* the vertical pass when the height changes, each pass rounding to 8 bits.
resize(img, size) ==
    LET hor == IF size[1] # img.w
               THEN ImagingResampleHorizontal(img, size[1]) ELSE img
    IN  IF size[2] # img.h
        THEN ImagingResampleVertical(hor, size[2]) ELSE hor

\* PIL Image.convert("RGB"): an "L" pixel v becomes (v, v, v); an "RGB" image
\* is copied unchanged.
convert_RGB(img) ==
    IF img.mode = "RGB" THEN img
    ELSE [mode |-> "RGB", w |-> img.w, h |-> img.h,
          px |-> [p \in Positions(img.w, img.h) |->
                     <<img.px[p][1], img.px[p][1], img.px[p][1]>>]]

\* Mutant of MULDIV255: integer division that truncates instead of rounding.
MULDIV255_truncating(a, b) == (a * b) \div 255

\* Pillow MULDIV255(a, b): tmp = a * b + 128; ((tmp >> 8) + tmp) >> 8.
MULDIV255(a, b) ==
    LET tmp == a * b + 128
    IN  ((tmp \div 256) + tmp) \div 256

Min(a, b) == IF a < b THEN a ELSE b

\* PIL ImageChops.multiply(image1, image2): band by band MULDIV255 over the
\* common area of the two images.
ImageChops_multiply(image1, image2) ==
    LET w == Min(image1.w, image2.w)
        h == Min(image1.h, image2.h)
    IN  [mode |-> image1.mode, w |-> w, h |-> h,
         px |-> [p \in Positions(w, h) |->
                    [b \in 1 .. Bands(image1.mode) |->
                        MULDIV255(image1.px[p][b], image2.px[p][b])]]]

----------------------------------------------------------------------------
(* process_multiply (src/app.py 67-72).                                    *)

\* Mutant of process_multiply: the render is resized to the sketch's size.
process_multiply_resizes_render(render, sketch) ==
    LET differ == Size(render) # Size(sketch)
    IN  IF differ /\ resize_raises(Size(sketch))
        THEN [kind |-> "ValueError", resized |-> TRUE, blended |-> FALSE]
        ELSE LET sized == IF differ THEN resize(render, Size(sketch)) ELSE render
             IN  [kind |-> "ok",
                  img |-> ImageChops_multiply(convert_RGB(sized),
                                              convert_RGB(sketch)),
                  resized |-> differ, blended |-> TRUE]

\* Mutant of process_multiply: the sketch is blended without being resized.
process_multiply_no_resize(render, sketch) ==
    [kind |-> "ok",
     img |-> ImageChops_multiply(convert_RGB(render), convert_RGB(sketch)),
     resized |-> FALSE, blended |-> TRUE]

\* The outcome is a record: kind "ok" with the returned image, or the kind
\* of the exception that left the function; resized / blended tell whether
\* Image.resize and ImageChops.multiply were called.
process_multiply(render, sketch) ==
    LET differ == Size(render) # Size(sketch)
    IN  IF differ /\ resize_raises(Size(render))
        THEN [kind |-> "ValueError", resized |-> TRUE, blended |-> FALSE]
        ELSE LET sized == IF differ THEN resize(sketch, Size(render)) ELSE sketch
             IN  [kind |-> "ok",
                  img |-> ImageChops_multiply(convert_RGB(render),
                                              convert_RGB(sized)),
                  resized |-> differ, blended |-> TRUE]

\* Inputs of process_multiply.
Dims == 0 .. MaxDim
RenderColors == {<<255, 0, 0>>, <<200, 100, 1>>, <<13, 255, 128>>}
RenderGrays == {<<255>>, <<77>>}
MaskGrays == {<<0>>, <<128>>, <<255>>}
MaskColors == {<<255, 255, 255>>, <<255, 0, 0>>, <<128, 128, 128>>}

Renders ==
    {Checker("RGB", w, h, c0, c1) :
        w \in Dims, h \in Dims, c0 \in RenderColors, c1 \in {<<200, 100, 1>>, <<0, 0, 0>>}}
    \cup {Checker("L", w, h, c0, <<255>>) : w \in Dims, h \in Dims, c0 \in RenderGrays}

Masks ==
    {Checker("L", w, h, c0, c1) :
        w \in Dims, h \in Dims, c0 \in MaskGrays, c1 \in MaskGrays}
    \cup {Checker("RGB", w, h, c0, c1) :
        w \in Dims, h \in Dims, c0 \in MaskColors, c1 \in {<<255, 255, 255>>, <<255, 0, 0>>}}

NotCalled == [kind |-> "none"]

ApiIdle ==
    /\ is_webui = FALSE
    /\ pc = "idle"
    /\ i = 0
    /\ generate_uuid = None
    /\ last = [kind |-> "none"]
    /\ ret = <<None, None>>

CleanIdle ==
    /\ uploaded_file = [kind |-> "none"]
    /\ cleaned_img = NotCalled

MultiplyIdle ==
    /\ render_img = [kind |-> "none"]
    /\ sketch_img = [kind |-> "none"]
    /\ final_img = NotCalled

\* One-pixel inputs covering every 8-bit render value against every 8-bit
\* mask value.
PixelPairs ==
    {<<Checker("RGB", 1, 1, <<r, 255 - r, (r + 128) % 256>>, <<0, 0, 0>>),
       Checker("L", 1, 1, <<m>>, <<0>>)>> : r \in 0 .. 255, m \in 0 .. 255}

InitMultiply ==
    /\ render_img \in Renders
    /\ sketch_img \in Masks
    /\ final_img = NotCalled
    /\ CleanIdle
    /\ ApiIdle

\* final_img = process_multiply(generated_img, cleaned_img)  (src/app.py 244)
Multiply ==
    /\ final_img.kind = "none"
    /\ final_img' = process_multiply(render_img, sketch_img)
    /\ UNCHANGED <<render_img, sketch_img, clean_vars, api_vars>>

NextMultiply == Multiply

SpecMultiply == InitMultiply /\ [][NextMultiply]_vars

\* The same call, on the inputs above and on every pair of 8-bit values.
InitBlend ==
    /\ \/ render_img \in Renders /\ sketch_img \in Masks
       \/ \E pair \in PixelPairs :
             render_img = pair[1] /\ sketch_img = pair[2]
    /\ final_img = NotCalled
    /\ CleanIdle
    /\ ApiIdle

NextBlend == Multiply

SpecBlend == InitBlend /\ [][NextBlend]_vars

----------------------------------------------------------------------------
(* Properties of process_multiply.                                         *)

\* n / d rounded to the nearest integer, halves up (n >= 0, d > 0).
Round(n, d) == (2 * n + d) \div (2 * d)

Returned == final_img.kind = "ok"

Degenerate(img) == img.w = 0 \/ img.h = 0

AllWhite(img) ==
    \A p \in Positions(img.w, img.h) : \A b \in 1 .. Bands(img.mode) :
        img.px[p][b] = 255

C2_RenderDimensions ==
    Returned => /\ Size(final_img.img) = Size(render_img)
                /\ final_img.img.mode = "RGB"
                /\ DOMAIN final_img.img.px = Positions(render_img.w, render_img.h)

\* C2 witness: a call returned for a 2x1 render and a 1x2 RGB mask.
C2_Witness ==
    /\ Returned
    /\ Size(render_img) = <<2, 1>> /\ Size(sketch_img) = <<1, 2>>
    /\ sketch_img.mode = "RGB"
    /\ final_img.resized

\* C3: for an RGB render and a non-empty mask whose pixels are all 255, of
\* any dimensions, the result equals the render pixel for pixel.
C3_MultiplyIdentity ==
    (Returned /\ render_img.mode = "RGB" /\ ~Degenerate(sketch_img)
        /\ AllWhite(sketch_img))
    => final_img.img = render_img

\* C3 witness: an all-white mask of another size was resized and blended
\* over a non-empty two-colour render.
C3_Witness ==
    /\ Returned /\ render_img.mode = "RGB" /\ ~Degenerate(sketch_img)
    /\ AllWhite(sketch_img)
    /\ Size(render_img) = <<2, 2>> /\ Size(sketch_img) = <<1, 2>>
    /\ render_img.px[<<0, 0>>] # render_img.px[<<1, 0>>]
    /\ final_img.resized

\* C4: the mask acts as one grayscale intensity per pixel: at every pixel
\* the three output bands are the render's three bands scaled by one common
\* intensity g.
C4_ColourlessBlend ==
    Returned =>
        \A p \in Positions(final_img.img.w, final_img.img.h) :
            \E g \in 0 .. 255 : \A b \in 1 .. 3 :
                final_img.img.px[p][b]
                    = MULDIV255(convert_RGB(render_img).px[p][b], g)

\* C8: the call raises DimensionError exactly when the render or the mask
\* has zero width or height, and then neither resizes nor blends.
C8_DimensionError ==
    final_img.kind # "none" =>
        /\ (final_img.kind = "DimensionError")
              <=> (Degenerate(render_img) \/ Degenerate(sketch_img))
        /\ (Degenerate(render_img) \/ Degenerate(sketch_img))
              => (~final_img.resized /\ ~final_img.blended)

----------------------------------------------------------------------------
(* cv2 operations used by process_clean_sketch.                            *)

\* cv2.adaptiveThreshold arguments at the call site: maxValue, blockSize, C.
maxValue == 255
blockSize == 31
C == 5

\* cv2.getGaussianKernel(31, sigma) with sigma = 0.3 * ((31 - 1) * 0.5 - 1)
\* + 0.8 = 5: the weights 100 * exp(-d^2 / 50) for d = 0 .. 15, rounded.
\* Entry d + 1 is the weight at distance d from the centre.
getGaussianKernel ==
    <<100, 98, 92, 84, 73, 61, 49, 38, 28, 20, 14, 9, 6, 3, 2, 1>>

radius == (blockSize - 1) \div 2

\* BORDER_REPLICATE: an index outside 0 .. n - 1 reads the nearest edge.
borderInterpolate(k, n) == IF k < 0 THEN 0 ELSE IF k > n - 1 THEN n - 1 ELSE k

RECURSIVE SumRange(_, _, _)
\* Sum of f[lo] + ... + f[hi].
SumRange(f, lo, hi) == IF lo > hi THEN 0 ELSE f[lo] + SumRange(f, lo + 1, hi)

\* n / d rounded to the nearest integer, halves to the even one (cvRound).
cvRound(n, d) ==
    LET q == n \div d
        r == n % d
    IN  IF 2 * r < d THEN q
        ELSE IF 2 * r > d THEN q + 1
        ELSE IF q % 2 = 0 THEN q ELSE q + 1

\* cv2.GaussianBlur(src, (31, 31), 0, borderType = BORDER_REPLICATE) followed
\* by the conversion back to 8 bits: the separable filter runs along the rows,
\* then along the columns, without rounding in between; the normalised sum
\* is rounded and saturated once.
GaussianBlur(img) ==
    LET K == getGaussianKernel
        total == SumRange([d \in -radius .. radius |-> K[Abs(d) + 1]],
                          -radius, radius)
        rows == [p \in Positions(img.w, img.h) |->
                    SumRange([d \in -radius .. radius |->
                                 K[Abs(d) + 1]
                                   * img.px[<<borderInterpolate(p[1] + d, img.w),
                                              p[2]>>][1]],
                             -radius, radius)]
    IN  [mode |-> "L", w |-> img.w, h |-> img.h,
         px |-> [p \in Positions(img.w, img.h) |->
                    <<clip8(cvRound(
                        SumRange([d \in -radius .. radius |->
                                     K[Abs(d) + 1]
                                       * rows[<<p[1],
                                                borderInterpolate(p[2] + d, img.h)>>]],
                                 -radius, radius),
                        total * total))>>]]

\* Mutant of threshold_binary: the comparison admits equality.
threshold_binary_inclusive(src, mean) ==
    IF src - mean >= -C THEN maxValue ELSE 0

\* Mutant of threshold_binary: the bias C is not subtracted.
threshold_binary_no_bias(src, mean) ==
    IF src - mean > 0 THEN maxValue ELSE 0

\* THRESH_BINARY table of adaptiveThreshold:
\* tab[src - mean + 255] = (src - mean > -ceil(C)) ? maxValue : 0.
threshold_binary(src, mean) ==
    IF src - mean > -C THEN maxValue ELSE 0

\* cv2.adaptiveThreshold(img, 255, ADAPTIVE_THRESH_GAUSSIAN_C, THRESH_BINARY,
\* 31, 5) on a decoded 8-bit single-channel image.
adaptiveThreshold(img) ==
    LET mean == GaussianBlur(img)
    IN  [mode |-> "L", w |-> img.w, h |-> img.h,
         px |-> [p \in Positions(img.w, img.h) |->
                    <<threshold_binary(img.px[p][1], mean.px[p][1])>>]]

\* cv2.imdecode(file_bytes, IMREAD_GRAYSCALE): the grayscale raster the bytes
\* encode, or None when the bytes are not a readable image (no exception).
imdecode(file) == IF file.kind = "image" THEN file.gray ELSE [kind |-> None]

----------------------------------------------------------------------------
(* process_clean_sketch (src/app.py 59-65).                                *)

\* The outcome is a record: kind "ok" with the returned image, or the kind of
\* the exception that left the function and the call that raised it;
\* thresholded tells whether adaptiveThreshold was called.
process_clean_sketch(file) ==
    LET img == imdecode(file)
    IN  IF "kind" \in DOMAIN img
        THEN \* img is None: adaptiveThreshold(None, ...) raises cv2.error
             [kind |-> "cv2.error", raised_by |-> "adaptiveThreshold",
              thresholded |-> TRUE]
        ELSE [kind |-> "ok", img |-> adaptiveThreshold(img),
              raised_by |-> None, thresholded |-> TRUE]

\* A sketch: background bg with one vertical line of brightness fg in column a.
Line(w, h, bg, fg, a) ==
    [mode |-> "L", w |-> w, h |-> h,
     px |-> [p \in Positions(w, h) |-> IF p[1] = a THEN <<fg>> ELSE <<bg>>]]

SketchGrays == {0, 4, 100, 111, 200, 255}

Sketches ==
    {Line(w, h, bg, fg, a) :
        w \in 1 .. MaxSketchW, h \in 1 .. MaxSketchH,
        bg \in SketchGrays, fg \in SketchGrays, a \in 0 .. (MaxSketchW - 1)}
    \cup {Checker("L", w, h, <<c0>>, <<c1>>) :
        w \in 1 .. MaxSketchW, h \in 1 .. MaxSketchH,
        c0 \in {0, 255}, c1 \in {0, 255}}

Uploads ==
    {[kind |-> "image", gray |-> g] : g \in Sketches}
    \cup {[kind |-> "corrupt"], [kind |-> "unsupported"]}

InitClean ==
    /\ uploaded_file \in Uploads
    /\ cleaned_img = NotCalled
    /\ MultiplyIdle
    /\ ApiIdle

\* uploaded_file.seek(0); cleaned_img = process_clean_sketch(uploaded_file)
\* (src/app.py 227-228); the caller has no handler, so an exception leaves
\* the script with it.
CleanSketch ==
    /\ cleaned_img.kind = "none"
    /\ cleaned_img' = process_clean_sketch(uploaded_file)
    /\ UNCHANGED <<uploaded_file, multiply_vars, api_vars>>

NextClean == CleanSketch

SpecClean == InitClean /\ [][NextClean]_vars

----------------------------------------------------------------------------
(* Properties of process_clean_sketch.                                     *)

Cleaned == cleaned_img.kind = "ok"

Sketch == uploaded_file.gray

\* The Gaussian-weighted mean of the 31x31 neighbourhood of pixel p, as one
\* sum over the window (edge pixels repeated outside the image), rounded to
\* 8 bits.
WindowMean(img, p) ==
    LET K == getGaussianKernel
        weight(dx, dy) == K[Abs(dx) + 1] * K[Abs(dy) + 1]
        total == SumRange([dy \in -15 .. 15 |->
                     SumRange([dx \in -15 .. 15 |-> weight(dx, dy)], -15, 15)],
                          -15, 15)
        sum == SumRange([dy \in -15 .. 15 |->
                   SumRange([dx \in -15 .. 15 |->
                       weight(dx, dy)
                         * img.px[<<borderInterpolate(p[1] + dx, img.w),
                                    borderInterpolate(p[2] + dy, img.h)>>][1]],
                            -15, 15)],
                        -15, 15)
    IN  clip8(cvRound(sum, total))

\* The locally adjusted threshold T of pixel p.
T(img, p) == WindowMean(img, p) - 5

Binary(img) ==
    \A p \in Positions(img.w, img.h) : img.px[p][1] \in {0, 255}

\* C5 as stated: output 0 if the brightness is strictly below T, and 255
\* otherwise, including when the brightness equals T.
C5_BelowThreshold ==
    Cleaned =>
        \A p \in Positions(Sketch.w, Sketch.h) :
            cleaned_img.img.px[p][1]
                = IF Sketch.px[p][1] < T(Sketch, p) THEN 0 ELSE 255

\* C5 amended: output 255 if the brightness is strictly above T, and 0
\* otherwise, including when the brightness equals T; no other value occurs
\* and the dimensions are the sketch's.
C5_AboveThreshold ==
    Cleaned =>
        /\ Size(cleaned_img.img) = Size(Sketch)
        /\ \A p \in Positions(Sketch.w, Sketch.h) :
            /\ cleaned_img.img.px[p][1]
                 = IF Sketch.px[p][1] > T(Sketch, p) THEN 255 ELSE 0
            /\ cleaned_img.img.px[p][1] \in {0, 255}

\* C5 witness: a cleaned sketch with a pixel of brightness exactly T (output
\* 0), a pixel one above T (output 255) and so both output values.
C5_Witness ==
    /\ Cleaned
    /\ \E p \in Positions(Sketch.w, Sketch.h) :
          Sketch.px[p][1] = T(Sketch, p) /\ cleaned_img.img.px[p][1] = 0
    /\ \E p \in Positions(Sketch.w, Sketch.h) :
          Sketch.px[p][1] > T(Sketch, p) /\ cleaned_img.img.px[p][1] = 255

\* C6 as stated: an image whose pixels are all 0 or 255 is reproduced.
C6_Idempotent ==
    (Cleaned /\ Binary(Sketch)) => cleaned_img.img = Sketch

\* C6 amended: on an image whose pixels are all 0 or 255 every white pixel
\* stays white, and a black pixel stays black exactly when the weighted mean
\* of its neighbourhood is at least 5; otherwise (an all-black image, the
\* inside of a black region wider than the window) it turns white.
C6_BinaryPattern ==
    (Cleaned /\ Binary(Sketch)) =>
        \A p \in Positions(Sketch.w, Sketch.h) :
            /\ Sketch.px[p][1] = 255 => cleaned_img.img.px[p][1] = 255
            /\ Sketch.px[p][1] = 0 =>
                  (cleaned_img.img.px[p][1] = 0 <=> WindowMean(Sketch, p) >= 5)
            /\ (\A q \in Positions(Sketch.w, Sketch.h) : Sketch.px[q][1] = 0)
                  => cleaned_img.img.px[p][1] = 255

\* C6 witness: a binary sketch with a black line on white was reproduced,
\* black pixels included.
C6_Witness ==
    /\ Cleaned /\ Binary(Sketch)
    /\ \E p \in Positions(Sketch.w, Sketch.h) :
          Sketch.px[p][1] = 0 /\ cleaned_img.img.px[p][1] = 0
    /\ \E p \in Positions(Sketch.w, Sketch.h) : Sketch.px[p][1] = 255
    /\ cleaned_img.img = Sketch

\* C7: bytes that cannot be decoded make the call fail with a DecodeError
\* raised by the decode step, before thresholding is attempted.
C7_DecodeError ==
    (cleaned_img.kind # "none" /\ uploaded_file.kind # "image") =>
        /\ cleaned_img.kind = "DecodeError"
        /\ cleaned_img.raised_by = "imdecode"
        /\ ~cleaned_img.thresholded

----------------------------------------------------------------------------
(* call_liblib_api (src/app.py 82-187) and its caller (232-244).           *)
(* JSON scalars are written as strings ("0", "1", "-1", ...); None is a    *)
(* null or missing value; Absent marks a missing key where a lookup by     *)
(* subscript would raise KeyError.                                         *)

Absent == "Absent"
ImageUrl == "https://cdn.example/render.png"

\* for i in range(60)
PollLimit == 60

\* The error messages of the function (all non-empty).
ErrSubmit == "submit failed (status_code): text"
ErrApi == "API error: msg"
ErrRequest == "request exception: e"
ErrFailed == "server-side generation failed"
ErrTimeout == "wait timed out"

\* Responses to requests.post(submit_url, ...).  exc: the request or
\* response.json() raised; data: "absent" | "null" | "obj".
SubmitResponses ==
    {[type |-> "submit", exc |-> TRUE, status_code |-> 0, code |-> None,
      data |-> "absent", generateUuid |-> None, generate_uuid |-> None]}
    \cup {[type |-> "submit", exc |-> FALSE, status_code |-> sc, code |-> "0",
           data |-> "obj", generateUuid |-> "uuid-1", generate_uuid |-> None] :
           sc \in {404, 500}}
    \cup {[type |-> "submit", exc |-> FALSE, status_code |-> 200, code |-> c,
           data |-> "obj", generateUuid |-> "uuid-1", generate_uuid |-> None] :
           c \in {"1", None}}
    \cup {[type |-> "submit", exc |-> FALSE, status_code |-> 200, code |-> "0",
           data |-> d, generateUuid |-> None, generate_uuid |-> None] :
           d \in {"absent", "null"}}
    \cup {[type |-> "submit", exc |-> FALSE, status_code |-> 200, code |-> "0",
           data |-> "obj", generateUuid |-> a, generate_uuid |-> b] :
           a \in {None, "", "uuid-1"}, b \in {None, "uuid-2"}}

\* Responses to requests.get(status_url, ...).  images: "absent" | "empty" |
\* "one"; imageUrl / image_url: the fields of images[0].
StatusPairs ==
    {<<g, None>> : g \in {None, "0", "1", "2", "-1"}}
    \cup {<<None, t>> : t \in {"0", "1", "2", "-1"}}
    \cup {<<"0", "1">>, <<"1", "2">>, <<"2", "1">>}

ImageFields ==
    {<<"absent", Absent, Absent>>, <<"empty", Absent, Absent>>,
     <<"one", Absent, Absent>>, <<"one", ImageUrl, Absent>>,
     <<"one", Absent, ImageUrl>>, <<"one", None, Absent>>,
     <<"one", Absent, None>>, <<"one", ImageUrl, ImageUrl>>}

PollResponses ==
    {[type |-> "poll", exc |-> TRUE, data |-> "absent", generateStatus |-> None,
      status |-> None, images |-> "absent", imageUrl |-> Absent,
      image_url |-> Absent]}
    \cup {[type |-> "poll", exc |-> FALSE, data |-> d, generateStatus |-> None,
           status |-> None, images |-> "absent", imageUrl |-> Absent,
           image_url |-> Absent] : d \in {"absent", "null"}}
    \cup {[type |-> "poll", exc |-> FALSE, data |-> "obj",
           generateStatus |-> sp[1], status |-> sp[2], images |-> im[1],
           imageUrl |-> im[2], image_url |-> im[3]] :
           sp \in StatusPairs, im \in ImageFields}

\* Python truthiness of a string-or-None value.
Truthy(v) == v # None /\ v # ""

\* a or b
Or(a, b) == IF Truthy(a) THEN a ELSE b

\* Lines 134-147: the outcome of the submit step.  returns: the function
\* returned at this step; value: the pair returned; uuid: generate_uuid.
submit_step(resp) ==
    IF resp.exc
    THEN [returns |-> TRUE, value |-> <<None, ErrRequest>>, uuid |-> None]
    ELSE IF resp.status_code # 200
    THEN [returns |-> TRUE, value |-> <<None, ErrSubmit>>, uuid |-> None]
    ELSE IF resp.code # "0"
    THEN [returns |-> TRUE, value |-> <<None, ErrApi>>, uuid |-> None]
    ELSE IF resp.data # "obj"
    THEN \* data['data'] raises KeyError, or None.get raises AttributeError
         [returns |-> TRUE, value |-> <<None, ErrRequest>>, uuid |-> None]
    ELSE [returns |-> FALSE, value |-> <<None, None>>,
          uuid |-> Or(resp.generateUuid, resp.generate_uuid)]

\* Lines 175-177: generateStatus, or status when that is None; a missing
\* data object reads as {}.
poll_status(resp) ==
    IF resp.data = "absent" THEN None
    ELSE IF resp.generateStatus # None THEN resp.generateStatus
    ELSE resp.status

\* Line 181: res_data['data']['images'][0]['imageUrl' or 'image_url'];
\* Absent when a subscript raises.
poll_url(resp, webui) ==
    IF resp.images # "one" THEN Absent
    ELSE IF webui THEN resp.imageUrl ELSE resp.image_url

\* Mutant of poll_step: a ready response without a usable URL is an error.
poll_step_checks_url(resp, webui) ==
    IF resp.exc \/ resp.data = "null"
    THEN [returns |-> FALSE, value |-> <<None, None>>]
    ELSE IF poll_status(resp) = "1"
    THEN IF poll_url(resp, webui) \in {Absent, None}
         THEN [returns |-> TRUE, value |-> <<None, ErrFailed>>]
         ELSE [returns |-> TRUE, value |-> <<poll_url(resp, webui), None>>]
    ELSE IF poll_status(resp) \in {"2", "-1"}
    THEN [returns |-> TRUE, value |-> <<None, ErrFailed>>]
    ELSE [returns |-> FALSE, value |-> <<None, None>>]

\* Lines 166-185: the outcome of one loop iteration.  Every exception inside
\* the try block, the failed lookup of the URL included, is swallowed by the
\* bare except and the loop goes on.
poll_step(resp, webui) ==
    IF resp.exc \/ resp.data = "null"
    THEN [returns |-> FALSE, value |-> <<None, None>>]
    ELSE IF poll_status(resp) = "1"
    THEN IF poll_url(resp, webui) = Absent
         THEN [returns |-> FALSE, value |-> <<None, None>>]
         ELSE [returns |-> TRUE, value |-> <<poll_url(resp, webui), None>>]
    ELSE IF poll_status(resp) \in {"2", "-1"}
    THEN [returns |-> TRUE, value |-> <<None, ErrFailed>>]
    ELSE [returns |-> FALSE, value |-> <<None, None>>]

InitApi ==
    /\ is_webui \in BOOLEAN
    /\ pc = "submit"
    /\ i = 0
    /\ generate_uuid = None
    /\ last = [type |-> "none"]
    /\ ret = <<None, None>>
    /\ MultiplyIdle
    /\ CleanIdle

\* The submit request and the handling of its response (lines 130-147).
Submit ==
    /\ pc = "submit"
    /\ \E resp \in SubmitResponses :
        LET out == submit_step(resp)
        IN  /\ last' = resp
            /\ generate_uuid' = out.uuid
            /\ ret' = out.value
            /\ pc' = IF out.returns THEN "returned" ELSE "polling"
    /\ UNCHANGED <<is_webui, i, multiply_vars, clean_vars>>

\* One iteration of the polling loop (lines 161-185); after the last
\* iteration without a return the function returns the time-out (line 187).
Poll ==
    /\ pc = "polling"
    /\ i < PollLimit
    /\ \E resp \in PollResponses :
        LET out == poll_step(resp, is_webui)
        IN  /\ last' = resp
            /\ i' = i + 1
            /\ IF out.returns
               THEN pc' = "returned" /\ ret' = out.value
               ELSE IF i + 1 = PollLimit
               THEN pc' = "returned" /\ ret' = <<None, ErrTimeout>>
               ELSE pc' = "polling" /\ ret' = ret
    /\ UNCHANGED <<is_webui, generate_uuid, multiply_vars, clean_vars>>

\* img_url, error = call_liblib_api(...); if error: ... st.stop()
\* (lines 232-239); otherwise the script goes on to requests.get(img_url).
CallerCheck ==
    /\ pc = "returned"
    /\ pc' = IF Truthy(ret[2]) THEN "stopped" ELSE "download"
    /\ UNCHANGED <<is_webui, i, generate_uuid, last, ret, multiply_vars, clean_vars>>

NextApi == Submit \/ Poll \/ CallerCheck

SpecApi == InitApi /\ [][NextApi]_vars

\* The scheduling of the script: a request returns or raises, and the loop
\* and the caller then take their next step.
SpecApiFair == SpecApi /\ WF_vars(NextApi)

----------------------------------------------------------------------------
(* Properties of call_liblib_api.                                          *)

\* The status a poll response reports: generateStatus, else status; None for
\* a request or parse exception and for a missing or null data object.
Reports(resp) ==
    IF resp.exc \/ resp.data # "obj" THEN None
    ELSE IF resp.generateStatus # None THEN resp.generateStatus
    ELSE resp.status

\* The URL field line 181 reads from images[0], Absent when it is missing.
UrlField(resp) ==
    IF resp.images # "one" THEN Absent
    ELSE IF is_webui THEN resp.imageUrl ELSE resp.image_url

Finished == pc \in {"returned", "stopped", "download"}

ByPoll == Finished /\ last.type = "poll"

\* C9 as stated: at most 60 status requests; the URL is returned at the first
\* poll reporting status 1, the failure message at the first poll reporting
\* 2 or -1, every other poll is pending and the 60th pending poll returns
\* the time-out.
C9_PollStateMachine ==
    /\ i <= PollLimit
    /\ pc = "polling" => i < PollLimit
    /\ (pc = "polling" /\ i > 0) => Reports(last) \notin {"1", "2", "-1"}
    /\ ByPoll =>
          IF Reports(last) = "1" THEN ret = <<ImageUrl, None>>
          ELSE IF Reports(last) \in {"2", "-1"} THEN ret = <<None, ErrFailed>>
          ELSE i = PollLimit /\ ret = <<None, ErrTimeout>>

\* A poll response is ready when it reports status 1 and images[0] carries
\* the URL key the function reads.
ReadyWithUrl(resp) == Reports(resp) = "1" /\ UrlField(resp) # Absent

C9_Safety ==
    /\ i <= PollLimit
    /\ pc = "polling" => i < PollLimit
    /\ (pc = "polling" /\ i > 0) =>
          (~ReadyWithUrl(last) /\ Reports(last) \notin {"2", "-1"})
    /\ ByPoll =>
          IF ReadyWithUrl(last) THEN ret = <<UrlField(last), None>>
          ELSE IF Reports(last) \in {"2", "-1"} THEN ret = <<None, ErrFailed>>
          ELSE i = PollLimit /\ ret = <<None, ErrTimeout>>
    /\ (Finished /\ last.type = "submit") =>
          (i = 0 /\ ret[1] = None /\ ret[2] \in {ErrSubmit, ErrApi, ErrRequest})

\* C9 amended: at most 60 status requests; the function returns the value of
\* the URL key of images[0] (which may be null) at the first poll that
\* reports status 1 and carries that key, the failure message at the first
\* poll reporting 2 or -1; every other poll, a status 1 response without
\* images[0] or without the key included, is pending, and the 60th pending
\* poll returns the time-out; the call always ends, in exactly one of these.
C9_PollStateMachineAmended == []C9_Safety /\ <>Finished

\* C9 witness: the 60th poll reported status 1 without an image entry and
\* the call timed out.
C9_Witness ==
    /\ pc = "returned" /\ i = PollLimit
    /\ Reports(last) = "1" /\ UrlField(last) = Absent
    /\ ret = <<None, ErrTimeout>>

\* C10: every return is a pair with exactly one non-null component, a usable
\* URL with error None or None with a non-empty message, so the caller stops
\* on every failure and downloads only a real URL.
C10_ExactlyOneComponent ==
    Finished =>
        /\ (ret[1] # None) # (ret[2] # None)
        /\ ret[2] # None => (ret[1] = None /\ ret[2] # "")
        /\ ret[2] = None => ret[1] = ImageUrl
        /\ pc = "download" => ret[1] = ImageUrl
        /\ pc = "stopped" => ret[2] # None

====
